---- MODULE Spec2Model ----
(***************************************************************************)
(* The IDIX scoring engine of I-TYPE (src/idix_engine.py): the Normalizer  *)
(* (calculate_question_scores), the scenario stage                         *)
(* (calculate_scenario_scores, merge_scores), the archetype matcher        *)
(* (determine_archetypes) and the pipeline that chains them (compute_idix).*)
(*                                                                         *)
(* Numbers.  The engine computes with Python ints and floats.  The model   *)
(* computes with exact rationals, every number held as an integer count of *)
(* 1/Scale units (Num(50) is the number 50).  Scale is a multiple of every *)
(* possible answer count, so the one division of the engine (total/count)  *)
(* is exact.  Floating-point rounding is not modelled.                     *)
(*                                                                         *)
(* Python values.  None, a list and a dict are records with a "type"       *)
(* field, so that isinstance and truthiness are computed, not assumed.  A  *)
(* dict whose iteration order matters (the archetype mapping) holds its    *)
(* items as a sequence in insertion order; a dict read only by key (a      *)
(* score vector, a signature) holds them as a function.                    *)
(***************************************************************************)
EXTENDS Integers, Sequences, FiniteSets, TLC

VARIABLES
    pc,                  \* position of the call being modelled
    answers,             \* calculate_question_scores: the answers dict, in insertion order
    scenario_responses,  \* calculate_scenario_scores: list of impact 1..5 or None
    scenario_weights,    \* calculate_scenario_scores: list of {dimension, weight}
    archetypes,          \* determine_archetypes / compute_idix: the archetype mapping
    q_scores,            \* base (question) scores, dimension -> number
    scenario_adj,        \* scenario adjustments, dimension -> number
    final_scores,        \* merged, clamped scores
    scenario_given,      \* compute_idix: outcome of `scenario_responses and scenario_weights`
    result,              \* <<primary, shadow>> as returned by the matcher
    runs,                \* simulation: number of trials (N)
    trial,               \* simulation: trials done so far
    counts,              \* simulation: archetype name -> wins
    probs,               \* simulation: archetype name -> percentage, in 1/runs units
    step,                \* session_state["step"]
    has_results,         \* session_state["has_results"]
    open_archetype,      \* session_state["open_archetype"]
    questions,           \* the wizard's question list
    session_q,           \* session_state["q<i>"]: the slider values that are set
    session_sc           \* session_state["sc_<i>"]: the scenario choices that are set

simulation_vars == <<runs, trial, counts, probs>>
session_vars == <<step, has_results, open_archetype, questions, session_q, session_sc>>
engine_vars == <<answers, scenario_responses, scenario_weights,
                 q_scores, scenario_adj, final_scores, scenario_given, result>>

vars == <<pc, answers, scenario_responses, scenario_weights, archetypes,
          q_scores, scenario_adj, final_scores, scenario_given, result,
          simulation_vars, session_vars>>

----------------------------------------------------------------------------
(* Bounds of the model *)

MaxAnswers == 2
MaxScenarios == 2
MaxArchetypes == 2
MaxCallAnswers == 1
MaxCallScenarios == 1
MaxCallArchetypes == 1

Dims == {"thinking", "execution"}
ArchetypeNames == <<"Visionary", "Operator", "Builder", "Catalyst">>
LikertValues == 1..5

RECURSIVE Gcd(_, _)
Gcd(a, b) == IF b = 0 THEN a ELSE Gcd(b, a % b)

RECURSIVE LcmUpTo(_)
LcmUpTo(n) == IF n <= 1 THEN 1 ELSE LET l == LcmUpTo(n - 1) IN (l * n) \div Gcd(l, n)

Scale == LcmUpTo(MaxAnswers)
Num(n) == n * Scale

----------------------------------------------------------------------------
(* Python values *)

PyNone == [type |-> "NoneType", items |-> <<>>]
PyList(xs) == [type |-> "list", items |-> xs]
PyDict(kv) == [type |-> "dict", items |-> kv]

isinstance_dict(v) == v.type = "dict"

\* bool(v) for None, a list or a dict
Truthy(v) == v.type # "NoneType" /\ v.items # <<>>

\* data.get(key): the value, or None when the key is absent
Get(data, key) == IF key \in DOMAIN data THEN data[key] ELSE PyNone

\* data.get(key, default) for a boolean flag
GetFlag(data, key, default) == IF key \in DOMAIN data THEN data[key] ELSE default

Max2(a, b) == IF a >= b THEN a ELSE b
Min2(a, b) == IF a <= b THEN a ELSE b

----------------------------------------------------------------------------
(* Normalizer *)

normalize_dimension_div5(total, count) ==
    IF count = 0 THEN Num(50)
    ELSE LET raw_avg == Num(total) \div count
         IN  ((raw_avg - Num(1)) * 100) \div 5

\* (raw_avg - 1) / 4 * 100, with raw_avg = total / count; both divisions are exact here
normalize_dimension(total, count) ==
    IF count = 0 THEN Num(50)
    ELSE LET raw_avg == Num(total) \div count
         IN  ((raw_avg - Num(1)) * 100) \div 4

reverse_score_5(val) == 5 - val

reverse_score(val) == 6 - val

\* one pass of the loop body: the value the answer adds to its dimension
answer_value(data) ==
    IF GetFlag(data, "reverse", FALSE) THEN reverse_score(data.value) ELSE data.value

\* [totals, counts] after the loop over the first n answers
RECURSIVE accumulate(_, _)
accumulate(ans, n) ==
    IF n = 0 THEN [totals |-> <<>>, counts |-> <<>>]
    ELSE LET acc == accumulate(ans, n - 1)
             data == ans[n]
             dim == data.dimension
             val == answer_value(data)
             seen == dim \in DOMAIN acc.totals
             t0 == IF seen THEN acc.totals[dim] ELSE 0
             c0 == IF seen THEN acc.counts[dim] ELSE 0
             D == DOMAIN acc.totals \cup {dim}
         IN  [totals |-> [d \in D |-> IF d = dim THEN t0 + val ELSE acc.totals[d]],
              counts |-> [d \in D |-> IF d = dim THEN c0 + 1 ELSE acc.counts[d]]]

calculate_question_scores(ans) ==
    LET acc == accumulate(ans, Len(ans))
    IN  [dim \in DOMAIN acc.totals |-> normalize_dimension(acc.totals[dim], acc.counts[dim])]

----------------------------------------------------------------------------
(* Scenario stage *)

NoResponse == [type |-> "NoneType", value |-> 0]
Response(n) == [type |-> "int", value |-> n]

\* the loop with the response used as it is, not centred on 3
RECURSIVE scenario_loop_uncentred(_, _, _)
scenario_loop_uncentred(responses, weights, n) ==
    IF n = 0 THEN <<>>
    ELSE LET adj == scenario_loop_uncentred(responses, weights, n - 1)
             resp == responses[n]
             w == weights[n]
         IN  IF resp.type = "NoneType" THEN adj
             ELSE LET dim == w.dimension
                      influence == resp.value * w.weight
                      a0 == IF dim \in DOMAIN adj THEN adj[dim] ELSE 0
                  IN  [d \in DOMAIN adj \cup {dim} |->
                          IF d = dim THEN a0 + influence ELSE adj[d]]

\* adjustments after the first n pairs of zip(responses, weights)
RECURSIVE scenario_loop(_, _, _)
scenario_loop(responses, weights, n) ==
    IF n = 0 THEN <<>>
    ELSE LET adj == scenario_loop(responses, weights, n - 1)
             resp == responses[n]
             w == weights[n]
         IN  IF resp.type = "NoneType" THEN adj
             ELSE LET dim == w.dimension
                      influence == (resp.value - 3) * w.weight
                      a0 == IF dim \in DOMAIN adj THEN adj[dim] ELSE 0
                  IN  [d \in DOMAIN adj \cup {dim} |->
                          IF d = dim THEN a0 + influence ELSE adj[d]]

calculate_scenario_scores(responses, weights) ==
    scenario_loop(responses, weights, Min2(Len(responses), Len(weights)))

merge_scores_unclamped(base_scores, scenario_adjustments) ==
    [dim \in DOMAIN base_scores |->
        base_scores[dim] +
            (IF dim \in DOMAIN scenario_adjustments THEN scenario_adjustments[dim] ELSE 0)]

merge_scores_weighted(base_scores, scenario_adjustments) ==
    [dim \in DOMAIN base_scores |->
        LET adj == IF dim \in DOMAIN scenario_adjustments
                   THEN scenario_adjustments[dim] ELSE 0
            final_val == (3 * base_scores[dim] + adj) \div 4
        IN  Max2(Num(0), Min2(Num(100), final_val))]

merge_scores(base_scores, scenario_adjustments) ==
    [dim \in DOMAIN base_scores |->
        LET adj == IF dim \in DOMAIN scenario_adjustments
                   THEN scenario_adjustments[dim] ELSE 0
            final_val == base_scores[dim] + adj
        IN  Max2(Num(0), Min2(Num(100), final_val))]

----------------------------------------------------------------------------
(* Archetype matcher *)

UnknownPayload ==
    [description |-> "Your profile does not align with any archetype yet.",
     strengths |-> <<>>,
     risks |-> <<>>]
EmptyPayload == <<>>

\* sum((scores[d] - sig[d]) ** 2 for d in scores)
RECURSIVE SumSq(_, _, _)
SumSq(scores, sig, D) ==
    IF D = {} THEN 0
    ELSE LET d == CHOOSE x \in D : TRUE
         IN  (scores[d] - sig[d]) * (scores[d] - sig[d]) + SumSq(scores, sig, D \ {d})

\* the loop with `break` in place of `continue`
RECURSIVE distances_break(_, _, _)
distances_break(scores, items, n) ==
    IF n = 0 THEN [list |-> <<>>, stopped |-> FALSE]
    ELSE LET prev == distances_break(scores, items, n - 1)
             sig == Get(items[n].data, "signature")
         IN  IF prev.stopped THEN prev
             ELSE IF ~isinstance_dict(sig) THEN [prev EXCEPT !.stopped = TRUE]
             ELSE IF \E dim \in DOMAIN scores : dim \notin DOMAIN sig.items
                  THEN [prev EXCEPT !.stopped = TRUE]
             ELSE [prev EXCEPT !.list =
                      Append(@, <<items[n].name, SumSq(scores, sig.items, DOMAIN scores)>>)]

distances_loop_break(scores, items, n) == distances_break(scores, items, n).list

\* the loop comparing the dimensions the two vectors share, no completeness check
RECURSIVE distances_loop_lenient(_, _, _)
distances_loop_lenient(scores, items, n) ==
    IF n = 0 THEN <<>>
    ELSE LET prev == distances_loop_lenient(scores, items, n - 1)
             sig == Get(items[n].data, "signature")
         IN  IF ~isinstance_dict(sig) THEN prev
             ELSE Append(prev, <<items[n].name,
                     SumSq(scores, sig.items, DOMAIN scores \cap DOMAIN sig.items)>>)

\* `distances` after the loop over the first n items of archetypes.items()
RECURSIVE distances_loop(_, _, _)
distances_loop(scores, items, n) ==
    IF n = 0 THEN <<>>
    ELSE LET prev == distances_loop(scores, items, n - 1)
             name == items[n].name
             data == items[n].data
             sig == Get(data, "signature")
         IN  IF ~isinstance_dict(sig) THEN prev
             ELSE IF \E dim \in DOMAIN scores : dim \notin DOMAIN sig.items THEN prev
             ELSE Append(prev, <<name, SumSq(scores, sig.items, DOMAIN scores)>>)

\* insertion that puts x before the elements of equal key
insert_before_equal(sorted, x) ==
    LET k == Cardinality({i \in 1..Len(sorted) : sorted[i][2] < x[2]})
    IN  SubSeq(sorted, 1, k) \o <<x>> \o SubSeq(sorted, k + 1, Len(sorted))

\* x goes after every element whose key is not greater: the order of equal keys is kept
insert_stable(sorted, x) ==
    LET k == Cardinality({i \in 1..Len(sorted) : sorted[i][2] <= x[2]})
    IN  SubSeq(sorted, 1, k) \o <<x>> \o SubSeq(sorted, k + 1, Len(sorted))

\* distances.sort(key=lambda x: x[1]): list.sort is stable
RECURSIVE sort_by_distance(_, _)
sort_by_distance(list, n) ==
    IF n = 0 THEN <<>> ELSE insert_stable(sort_by_distance(list, n - 1), list[n])

\* archetypes[name]
archetype_data(items, name) ==
    LET i == CHOOSE j \in 1..Len(items) : items[j].name = name IN items[i].data

determine_archetypes_shadow_gt2(scores, archs) ==
    LET unsorted == distances_loop(scores, archs.items, Len(archs.items))
        distances == sort_by_distance(unsorted, Len(unsorted))
    IN  IF Len(distances) = 0
        THEN <<(<<"Unknown", UnknownPayload>>), (<<"None", EmptyPayload>>)>>
        ELSE <<(<<distances[1][1], archetype_data(archs.items, distances[1][1])>>),
               (IF Len(distances) > 2
                THEN <<distances[2][1], archetype_data(archs.items, distances[2][1])>>
                ELSE <<"None", EmptyPayload>>)>>

\* without the fail-safe, distances[0] of an empty list raises IndexError
determine_archetypes_no_failsafe(scores, archs) ==
    LET unsorted == distances_loop(scores, archs.items, Len(archs.items))
        distances == sort_by_distance(unsorted, Len(unsorted))
    IN  IF Len(distances) = 0
        THEN <<(<<"IndexError", EmptyPayload>>), (<<"IndexError", EmptyPayload>>)>>
        ELSE <<(<<distances[1][1], archetype_data(archs.items, distances[1][1])>>),
               (IF Len(distances) > 1
                THEN <<distances[2][1], archetype_data(archs.items, distances[2][1])>>
                ELSE <<"None", EmptyPayload>>)>>

\* returns <<(primary_name, primary_data), (shadow_name, shadow_data)>>
determine_archetypes(scores, archs) ==
    LET unsorted == distances_loop(scores, archs.items, Len(archs.items))
        distances == sort_by_distance(unsorted, Len(unsorted))
    IN  IF Len(distances) = 0
        THEN <<(<<"Unknown", UnknownPayload>>), (<<"None", EmptyPayload>>)>>
        ELSE <<(<<distances[1][1], archetype_data(archs.items, distances[1][1])>>),
               (IF Len(distances) > 1
                THEN <<distances[2][1], archetype_data(archs.items, distances[2][1])>>
                ELSE <<"None", EmptyPayload>>)>>

----------------------------------------------------------------------------
(* Inputs *)

ScoreValues == {Num(0), Num(50), Num(100)}
ScoreVectors == UNION {[S -> ScoreValues] : S \in SUBSET Dims}

SignatureValues == {Num(0), Num(100)}
SignatureVectors == UNION {[S -> SignatureValues] : S \in SUBSET Dims}

\* an archetype record: no "signature" key, a signature that is a list, or a dict
ArchetypeRecords ==
    {[description |-> "text"]}
        \cup {[description |-> "text", signature |-> PyList(<<Num(100), Num(0)>>)]}
        \cup {[description |-> "text", signature |-> PyDict(sig)] : sig \in SignatureVectors}

\* the items of an archetype mapping: at most max entries, keys distinct
ArchetypeItems(max) ==
    LET Names == {ArchetypeNames[i] : i \in 1..max}
    IN  UNION {{items \in [1..n -> [name : Names, data : ArchetypeRecords]] :
                    \A i, j \in 1..n : items[i].name = items[j].name => i = j}
               : n \in 0..max}

AnswerRecords ==
    [value : LikertValues, dimension : Dims]
        \cup [value : LikertValues, dimension : Dims, reverse : BOOLEAN]
AnswerSets(max) == UNION {[1..n -> AnswerRecords] : n \in 0..max}

ScenarioImpacts == {1, 3, 4}
ScenarioWeightValues == {Num(5), Num(30)}
Responses == {NoResponse} \cup {Response(n) : n \in ScenarioImpacts}
ResponseLists(max) == UNION {[1..n -> Responses] : n \in 0..max}
WeightLists(max) ==
    UNION {[1..n -> [dimension : Dims, weight : ScenarioWeightValues]] : n \in 0..max}

NoResult == <<(<<"", EmptyPayload>>), (<<"", EmptyPayload>>)>>

\* a value of session_state["open_archetype"]: None or an archetype name
NoArchetype == [type |-> "NoneType", value |-> ""]
OpenName(name) == [type |-> "str", value |-> name]

\* the simulation has not been started
SimulationIdle ==
    /\ runs = 0
    /\ trial = 0
    /\ counts = <<>>
    /\ probs = <<>>

\* the session as the first run of the script leaves it, no configuration loaded
SessionIdle ==
    /\ step = 1
    /\ has_results = FALSE
    /\ open_archetype = NoArchetype
    /\ questions = <<>>
    /\ session_q = <<>>
    /\ session_sc = <<>>

Idle ==
    /\ answers = <<>>
    /\ scenario_responses = <<>>
    /\ scenario_weights = <<>>
    /\ archetypes = PyNone
    /\ q_scores = <<>>
    /\ scenario_adj = <<>>
    /\ final_scores = <<>>
    /\ scenario_given = FALSE
    /\ result = NoResult
    /\ SimulationIdle
    /\ SessionIdle

----------------------------------------------------------------------------
(* calculate_question_scores called on its own *)

InitNormalizer ==
    /\ pc = "calculate_question_scores"
    /\ answers \in AnswerSets(MaxAnswers)
    /\ scenario_responses = <<>>
    /\ scenario_weights = <<>>
    /\ archetypes = PyNone
    /\ q_scores = <<>>
    /\ scenario_adj = <<>>
    /\ final_scores = <<>>
    /\ scenario_given = FALSE
    /\ result = NoResult
    /\ SimulationIdle
    /\ SessionIdle

Call_calculate_question_scores ==
    /\ pc = "calculate_question_scores"
    /\ q_scores' = calculate_question_scores(answers)
    /\ pc' = "question_scores"
    /\ UNCHANGED <<answers, scenario_responses, scenario_weights, archetypes,
                   scenario_adj, final_scores, scenario_given, result>>
    /\ UNCHANGED <<simulation_vars, session_vars>>

\* the caller re-codes one reverse-coded answer {v, reverse: true} as {6 - v, reverse: false}
\* under the same key and scores the answers again
Recode ==
    /\ pc = "question_scores"
    /\ \E q \in 1..Len(answers) :
          /\ GetFlag(answers[q], "reverse", FALSE)
          /\ answers' = [answers EXCEPT ![q] =
                            [value |-> 6 - answers[q].value,
                             dimension |-> answers[q].dimension,
                             reverse |-> FALSE]]
    /\ q_scores' = calculate_question_scores(answers')
    /\ pc' = "recoded"
    /\ UNCHANGED <<scenario_responses, scenario_weights, archetypes,
                   scenario_adj, final_scores, scenario_given, result>>
    /\ UNCHANGED <<simulation_vars, session_vars>>

NextNormalizer == Call_calculate_question_scores \/ Recode

SpecNormalizer == InitNormalizer /\ [][NextNormalizer]_vars

----------------------------------------------------------------------------
(* calculate_scenario_scores, then merge_scores, called on a base vector *)

InitAdjuster ==
    /\ pc = "calculate_scenario_scores"
    /\ answers = <<>>
    /\ scenario_responses \in ResponseLists(MaxScenarios)
    /\ scenario_weights \in WeightLists(MaxScenarios)
    /\ archetypes = PyNone
    /\ q_scores \in ScoreVectors
    /\ scenario_adj = <<>>
    /\ final_scores = <<>>
    /\ scenario_given = FALSE
    /\ result = NoResult
    /\ SimulationIdle
    /\ SessionIdle

Call_calculate_scenario_scores ==
    /\ pc = "calculate_scenario_scores"
    /\ scenario_adj' = calculate_scenario_scores(scenario_responses, scenario_weights)
    /\ pc' = "merge_scores"
    /\ UNCHANGED <<answers, scenario_responses, scenario_weights, archetypes,
                   q_scores, final_scores, scenario_given, result>>
    /\ UNCHANGED <<simulation_vars, session_vars>>

Call_merge_scores ==
    /\ pc = "merge_scores"
    /\ final_scores' = merge_scores(q_scores, scenario_adj)
    /\ pc' = "merged_scores"
    /\ UNCHANGED <<answers, scenario_responses, scenario_weights, archetypes,
                   q_scores, scenario_adj, scenario_given, result>>
    /\ UNCHANGED <<simulation_vars, session_vars>>

NextAdjuster == Call_calculate_scenario_scores \/ Call_merge_scores

SpecAdjuster == InitAdjuster /\ [][NextAdjuster]_vars

----------------------------------------------------------------------------
(* determine_archetypes called on a score vector and an archetype mapping *)

InitMatcher ==
    /\ pc = "determine_archetypes"
    /\ answers = <<>>
    /\ scenario_responses = <<>>
    /\ scenario_weights = <<>>
    /\ archetypes \in {PyDict(items) : items \in ArchetypeItems(MaxArchetypes)}
    /\ q_scores = <<>>
    /\ scenario_adj = <<>>
    /\ final_scores \in ScoreVectors
    /\ scenario_given = FALSE
    /\ result = NoResult
    /\ SimulationIdle
    /\ SessionIdle

Call_determine_archetypes ==
    /\ pc = "determine_archetypes"
    /\ result' = determine_archetypes(final_scores, archetypes)
    /\ pc' = "matched"
    /\ UNCHANGED <<answers, scenario_responses, scenario_weights, archetypes,
                   q_scores, scenario_adj, final_scores, scenario_given>>
    /\ UNCHANGED <<simulation_vars, session_vars>>

NextMatcher == Call_determine_archetypes

SpecMatcher == InitMatcher /\ [][NextMatcher]_vars

----------------------------------------------------------------------------
(* compute_idix(answers, scenario_responses, scenario_weights, archetypes)  *)
(* A call runs its four stages in order.  Each argument is read by one      *)
(* stage only; the stage draws it there.  Of the arguments the state keeps  *)
(* what the later stages and the return value depend on: the truth value of *)
(* `scenario_responses and scenario_weights`, and the archetype mapping.    *)

OptionalLists(lists) == {PyNone} \cup {PyList(l) : l \in lists}
OptionalArchetypes(max) == {PyNone} \cup {PyDict(items) : items \in ArchetypeItems(max)}

Init ==
    /\ pc = "compute_idix"
    /\ Idle

\* q_scores = calculate_question_scores(answers)
Idix_question_scores ==
    /\ pc = "compute_idix"
    /\ \E ans \in AnswerSets(MaxCallAnswers) :
          q_scores' = calculate_question_scores(ans)
    /\ pc' = "idix_scored"
    /\ UNCHANGED <<answers, scenario_responses, scenario_weights, archetypes,
                   scenario_adj, final_scores, scenario_given, result>>
    /\ UNCHANGED <<simulation_vars, session_vars>>

\* if scenario_responses and scenario_weights: ... else: scenario_adj = {}
Idix_scenario ==
    /\ pc = "idix_scored"
    /\ \E responses \in OptionalLists(ResponseLists(MaxCallScenarios)),
          weights \in OptionalLists(WeightLists(MaxCallScenarios)) :
          /\ scenario_given' = (Truthy(responses) /\ Truthy(weights))
          /\ scenario_adj' =
                IF Truthy(responses) /\ Truthy(weights)
                THEN calculate_scenario_scores(responses.items, weights.items)
                ELSE <<>>
    /\ pc' = "idix_adjusted"
    /\ UNCHANGED <<answers, scenario_responses, scenario_weights, archetypes,
                   q_scores, final_scores, result>>
    /\ UNCHANGED <<simulation_vars, session_vars>>

\* final_scores = merge_scores(q_scores, scenario_adj)
Idix_merge ==
    /\ pc = "idix_adjusted"
    /\ final_scores' = merge_scores(q_scores, scenario_adj)
    /\ pc' = "idix_merged"
    /\ UNCHANGED <<answers, scenario_responses, scenario_weights, archetypes,
                   q_scores, scenario_adj, scenario_given, result>>
    /\ UNCHANGED <<simulation_vars, session_vars>>

\* if archetypes: determine_archetypes(final_scores, archetypes) else: the fallback pair
compute_idix_archetypes(final, archs) ==
    IF Truthy(archs)
    THEN determine_archetypes(final, archs)
    ELSE <<(<<"Unknown", EmptyPayload>>), (<<"None", EmptyPayload>>)>>

Idix_archetypes ==
    /\ pc = "idix_merged"
    /\ \E archs \in OptionalArchetypes(MaxCallArchetypes) :
          /\ archetypes' = archs
          /\ result' = compute_idix_archetypes(final_scores, archs)
    /\ pc' = "idix_returned"
    /\ UNCHANGED <<answers, scenario_responses, scenario_weights,
                   q_scores, scenario_adj, final_scores, scenario_given>>
    /\ UNCHANGED <<simulation_vars, session_vars>>

Next == Idix_question_scores \/ Idix_scenario \/ Idix_merge \/ Idix_archetypes

Spec == Init /\ [][Next]_vars

----------------------------------------------------------------------------
(* The matcher called on its own or through compute_idix *)

SpecMatching == (InitMatcher \/ Init) /\ [][NextMatcher \/ Next]_vars

(* merge_scores called on its own or through compute_idix *)

SpecMerging == (InitAdjuster \/ Init) /\ [][NextAdjuster \/ Next]_vars

----------------------------------------------------------------------------
(* Vocabulary of the properties, stated on the inputs and independent of   *)
(* the matcher's own operators                                             *)

RECURSIVE SetSum(_, _)
SetSum(f, S) ==
    IF S = {} THEN 0
    ELSE LET x == CHOOSE y \in S : TRUE IN f[x] + SetSum(f, S \ {x})

Items == archetypes.items
Scored == DOMAIN final_scores

IsMapping(i) ==
    /\ "signature" \in DOMAIN Items[i].data
    /\ Items[i].data.signature.type = "dict"
Signature(i) == Items[i].data.signature.items
Covers(i) == IsMapping(i) /\ Scored \subseteq DOMAIN Signature(i)
ValidIndices == {i \in 1..Len(Items) : Covers(i)}
Entry(i) == <<Items[i].name, Items[i].data>>

\* squared Euclidean distance over the dimensions in D
SqDist(i, D) ==
    SetSum([d \in D |-> (final_scores[d] - Signature(i)[d]) * (final_scores[d] - Signature(i)[d])], D)

\* i is nearest among the indices in S, and first among the nearest
NearestFirst(i, S) ==
    \A j \in S : \/ SqDist(i, Scored) < SqDist(j, Scored)
                 \/ SqDist(i, Scored) = SqDist(j, Scored) /\ i <= j

MatcherReturned == pc \in {"matched", "idix_returned"} /\ archetypes.type = "dict"
Sentinels == <<(<<"Unknown", UnknownPayload>>), (<<"None", EmptyPayload>>)>>

\* C1: with at least one valid signature, the primary is a valid archetype at
\* minimal Euclidean distance from the scores, the first such one in the
\* mapping's iteration order
C1_PrimaryNearestFirst ==
    (pc = "matched" /\ ValidIndices # {}) =>
        \E p \in ValidIndices : result[1] = Entry(p) /\ NearestFirst(p, ValidIndices)

\* two valid archetypes tie at the minimal distance and the earlier one is primary
C1_Witness ==
    /\ pc = "matched"
    /\ \E p, j \in ValidIndices :
          /\ p < j
          /\ SqDist(p, Scored) = SqDist(j, Scored)
          /\ NearestFirst(p, ValidIndices)
          /\ result[1] = Entry(p)
          /\ Scored # {}

\* C2: with no valid signature determine_archetypes returns ("Unknown", generic
\* payload) and ("None", {}); compute_idix called with no archetypes returns
\* primary "Unknown" and shadow "None"
C2_NoValidSentinel ==
    /\ (MatcherReturned /\ (pc = "matched" \/ Items # <<>>) /\ ValidIndices = {}) =>
            result = Sentinels
    /\ (pc = "idix_returned" /\ (archetypes.type = "NoneType" \/ Items = <<>>)) =>
            result[1][1] = "Unknown" /\ result[2][1] = "None"

\* the mapping holds records and none is valid: the sentinels come back
C2_Witness ==
    /\ pc = "matched"
    /\ Len(Items) >= 2
    /\ ValidIndices = {}
    /\ \E i, j \in 1..Len(Items) : ~IsMapping(i) /\ IsMapping(j) /\ ~Covers(j)
    /\ result = Sentinels

\* compute_idix returned for a call without archetypes
C2_WitnessIdix ==
    /\ pc = "idix_returned"
    /\ archetypes.type = "NoneType"
    /\ result[1][1] = "Unknown"

ValidItems == SelectSeq(Items, LAMBDA it :
                  /\ "signature" \in DOMAIN it.data
                  /\ it.data.signature.type = "dict"
                  /\ Scored \subseteq DOMAIN it.data.signature.items)

\* C3: records whose signature is missing, not a mapping or incomplete are
\* skipped: the result is the one for the mapping with those records removed
C3_InvalidSkipped ==
    pc = "matched" => result = determine_archetypes(final_scores, PyDict(ValidItems))

\* an invalid record precedes a valid one: it is skipped and the valid one is primary
C3_Witness ==
    /\ pc = "matched"
    /\ \E i, j \in 1..Len(Items) : i < j /\ ~Covers(i) /\ Covers(j) /\ result[1] = Entry(j)

\* C4: primary and shadow are the first and second of the valid archetypes in
\* ascending distance, ties in input order; with fewer than two valid
\* signatures the shadow is ("None", {})
C4_PrimaryAndShadow ==
    pc = "matched" =>
        IF Cardinality(ValidIndices) >= 2
        THEN \E p, s \in ValidIndices :
                /\ p # s
                /\ result = <<Entry(p), Entry(s)>>
                /\ NearestFirst(p, ValidIndices)
                /\ NearestFirst(s, ValidIndices \ {p})
                /\ SqDist(s, Scored) >= SqDist(p, Scored)
                /\ result[2][1] # result[1][1]
        ELSE result[2] = <<"None", EmptyPayload>>

\* two valid archetypes, the later one nearer: it is primary, the earlier one shadow
C4_Witness ==
    /\ pc = "matched"
    /\ \E p, s \in ValidIndices :
          /\ s < p
          /\ SqDist(p, Scored) < SqDist(s, Scored)
          /\ result = <<Entry(p), Entry(s)>>

\* exactly one valid archetype: the shadow is the "None" sentinel
C4_WitnessNone ==
    /\ pc = "matched"
    /\ Cardinality(ValidIndices) = 1
    /\ Len(Items) >= 2
    /\ result[2] = <<"None", EmptyPayload>>


CommonDims(i) == Scored \cap DOMAIN Signature(i)
MappingIndices == {i \in 1..Len(Items) : IsMapping(i)}

\* i is nearest among S by the distance over the dimensions shared with the scores
LenientNearestFirst(i, S) ==
    \A j \in S : \/ SqDist(i, CommonDims(i)) < SqDist(j, CommonDims(j))
                 \/ SqDist(i, CommonDims(i)) = SqDist(j, CommonDims(j)) /\ i <= j

\* C5 as stated: every archetype whose signature is a mapping participates,
\* with its distance taken over the dimensions it shares with the scores
C5_Original ==
    (pc = "matched" /\ MappingIndices # {}) =>
        \E p \in MappingIndices :
            result[1] = Entry(p) /\ LenientNearestFirst(p, MappingIndices)

\* the items with every complete signature cut down to the scored dimensions
RestrictedItems ==
    [i \in 1..Len(Items) |->
        IF Covers(i)
        THEN [name |-> Items[i].name,
              data |-> [Items[i].data EXCEPT !.signature =
                           PyDict([d \in Scored |-> Signature(i)[d]])]]
        ELSE Items[i]]

\* C5 (amended): the matcher compares exactly the scored dimensions. A
\* signature that lacks a scored dimension takes no part and is never primary
\* or shadow; signature dimensions that are not scored do not change the result
C5_ScoredDimensionsOnly ==
    pc = "matched" =>
        /\ \A i \in MappingIndices :
              ~Covers(i) => result[1][1] # Items[i].name /\ result[2][1] # Items[i].name
        /\ LET r == determine_archetypes(final_scores, PyDict(RestrictedItems))
           IN  r[1][1] = result[1][1] /\ r[2][1] = result[2][1]

\* a signature lacking a scored dimension would be nearest over the shared
\* dimensions, and a complete one further away is primary
C5_Witness ==
    /\ pc = "matched"
    /\ \E i \in MappingIndices, p \in ValidIndices :
          /\ ~Covers(i)
          /\ CommonDims(i) # {}
          /\ SqDist(i, CommonDims(i)) < SqDist(p, CommonDims(p))
          /\ result[1] = Entry(p)

----------------------------------------------------------------------------
(* Scenario stage properties *)

Merged == pc \in {"merged_scores", "idix_merged", "idix_returned"}
Adjustment(d) == IF d \in DOMAIN scenario_adj THEN scenario_adj[d] ELSE 0

\* C6: every final score lies in [0, 100]; a merged value above 100 becomes
\* exactly 100 and one below 0 exactly 0
C6_FinalScoresClamped ==
    Merged =>
        \A d \in DOMAIN final_scores :
            /\ Num(0) <= final_scores[d] /\ final_scores[d] <= Num(100)
            /\ q_scores[d] + Adjustment(d) > Num(100) => final_scores[d] = Num(100)
            /\ q_scores[d] + Adjustment(d) < Num(0) => final_scores[d] = Num(0)

\* inside compute_idix a merged value of 105 has become 100
C6_Witness ==
    /\ pc = "idix_merged"
    /\ \E d \in DOMAIN final_scores :
          q_scores[d] + Adjustment(d) = Num(105) /\ final_scores[d] = Num(100)

\* a merged value below 0 has become 0
C6_WitnessBelow ==
    /\ pc = "merged_scores"
    /\ \E d \in DOMAIN final_scores :
          q_scores[d] + Adjustment(d) < Num(0) /\ final_scores[d] = Num(0)

\* the pairs of zip(scenario_responses, scenario_weights) answered for dimension d
AnsweredFor(d) ==
    {i \in 1..Min2(Len(scenario_responses), Len(scenario_weights)) :
        scenario_responses[i].type = "int" /\ scenario_weights[i].dimension = d}

\* the raw scenario score of d: the sum of (response - 3) * weight
RawScenario(d) ==
    SetSum([i \in AnsweredFor(d) |->
               (scenario_responses[i].value - 3) * scenario_weights[i].weight],
           AnsweredFor(d))

Abs(x) == IF x < 0 THEN 0 - x ELSE x
RECURSIVE SetMax(_, _)
SetMax(f, S) ==
    IF S = {} THEN 0
    ELSE LET x == CHOOSE y \in S : TRUE IN Max2(f[x], SetMax(f, S \ {x}))

\* the largest raw magnitude over the dimensions, floored at 1
MaxMagnitude == Max2(Num(1), SetMax([d \in Dims |-> Abs(RawScenario(d))], Dims))

\* C7 as stated: final[d] = clamp(0.75 * base[d] + 0.25 * scenarioNorm[d]) with
\* scenarioNorm[d] = raw[d] / MaxMagnitude * 100; both sides times 4 * MaxMagnitude
C7_Original ==
    pc = "merged_scores" =>
        \A d \in DOMAIN q_scores :
            4 * MaxMagnitude * final_scores[d] =
                Max2(0, Min2(4 * MaxMagnitude * Num(100),
                             3 * q_scores[d] * MaxMagnitude + 100 * Scale * RawScenario(d)))

\* C7 (amended): final[d] = clamp(base[d] + raw[d]) for every dimension of the
\* base vector, raw[d] being the sum of (response - 3) * weight over the
\* answered scenarios of d; no blend weights and no rescaling
C7_FinalIsClampedSum ==
    pc = "merged_scores" =>
        /\ DOMAIN final_scores = DOMAIN q_scores
        /\ \A d \in DOMAIN q_scores :
              final_scores[d] = Max2(Num(0), Min2(Num(100), q_scores[d] + RawScenario(d)))

\* two answered scenarios add up on one dimension and move its score
C7_Witness ==
    /\ pc = "merged_scores"
    /\ \E d \in DOMAIN q_scores :
          /\ Cardinality(AnsweredFor(d)) = 2
          /\ RawScenario(d) # 0
          /\ final_scores[d] = q_scores[d] + RawScenario(d)
          /\ final_scores[d] # q_scores[d]

\* C8: without scenario signal the scenario stage is the identity: a dimension
\* that the adjustments lack or hold at 0 keeps its base score, and
\* compute_idix without scenario responses returns the question scores
C8_NoSignalIdentity ==
    /\ Merged =>
          /\ DOMAIN final_scores = DOMAIN q_scores
          /\ \A d \in DOMAIN q_scores :
                (d \notin DOMAIN scenario_adj \/ scenario_adj[d] = 0) =>
                    final_scores[d] = q_scores[d]
    /\ (pc \in {"idix_merged", "idix_returned"} /\ ~scenario_given) =>
          final_scores = q_scores

\* one dimension adjusted by 0, the other absent from the adjustments
C8_Witness ==
    /\ pc = "merged_scores"
    /\ DOMAIN q_scores = Dims
    /\ \E d \in Dims : DOMAIN scenario_adj = {d} /\ scenario_adj[d] = 0
    /\ \E d \in Dims : q_scores[d] = Num(50)
    /\ final_scores = q_scores

\* compute_idix without scenario responses
C8_WitnessIdix ==
    /\ pc = "idix_returned"
    /\ ~scenario_given
    /\ q_scores # <<>>
    /\ final_scores = q_scores

----------------------------------------------------------------------------
(* Normalizer properties *)

Scoring == pc \in {"question_scores", "recoded"}
AnsweredDims == {answers[q].dimension : q \in 1..Len(answers)}
NotReversed(q) == "reverse" \notin DOMAIN answers[q] \/ ~answers[q].reverse

\* C9 as stated: one non-reverse-coded response of value 3 in every dimension
\* makes every dimension score 50
C9_Original ==
    (Scoring /\ \A d \in AnsweredDims :
                    \E q \in 1..Len(answers) :
                        answers[q].dimension = d /\ answers[q].value = 3 /\ NotReversed(q))
        => \A d \in DOMAIN q_scores : q_scores[d] = Num(50)

\* C9 (amended): when every response has value 3, reverse-coded or not, every
\* answered dimension scores 50
C9_AllMidpoint ==
    (Scoring /\ \A q \in 1..Len(answers) : answers[q].value = 3)
        => /\ DOMAIN q_scores = AnsweredDims
           /\ \A d \in DOMAIN q_scores : q_scores[d] = Num(50)

\* two responses of value 3 on one dimension, one of them reverse-coded
C9_Witness ==
    /\ pc = "question_scores"
    /\ Len(answers) = 2
    /\ \A q \in 1..2 : answers[q].value = 3 /\ answers[q].dimension = "thinking"
    /\ ~NotReversed(1) /\ NotReversed(2)
    /\ q_scores = [thinking |-> Num(50)]

\* C10: re-coding {value: v, reverse: true} as {value: 6 - v, reverse: false}
\* leaves the score vector unchanged
C10_ReverseRoundTrip ==
    [][(pc = "question_scores" /\ pc' = "recoded") => q_scores' = q_scores]_vars

\* an answer was re-coded on a dimension that another answer shares
C10_Witness ==
    /\ pc = "recoded"
    /\ Len(answers) = 2
    /\ answers[1].dimension = answers[2].dimension
    /\ answers[1].value # 3 /\ answers[2].value # 3
    /\ q_scores # <<>>

----------------------------------------------------------------------------
(* End to end: compute_idix(answers, archetypes=archetypes), no scenario   *)
(* arguments, with the answers and the mapping kept in the state.  The     *)
(* mappings are those built from the two archetypes of the worked example. *)

ExampleAnswers ==
    <<[value |-> 5, dimension |-> "thinking", reverse |-> FALSE],
      [value |-> 1, dimension |-> "execution", reverse |-> TRUE]>>

ExampleEntries ==
    <<[name |-> "Visionary",
       data |-> [description |-> "text",
                 signature |-> PyDict([thinking |-> Num(90), execution |-> Num(40)])]],
      [name |-> "Operator",
       data |-> [description |-> "text",
                 signature |-> PyDict([thinking |-> Num(40), execution |-> Num(90)])]]>>

ExampleArchetypes == PyDict(ExampleEntries)

\* every mapping made of example entries, in any order, keys distinct
ExampleMappings ==
    LET E == {ExampleEntries[i] : i \in 1..Len(ExampleEntries)}
    IN  UNION {{items \in [1..n -> E] :
                    \A i, j \in 1..n : items[i].name = items[j].name => i = j}
               : n \in 0..Len(ExampleEntries)}

InitEndToEnd ==
    /\ pc = "e2e_compute_idix"
    /\ answers \in AnswerSets(MaxAnswers)
    /\ scenario_responses = <<>>
    /\ scenario_weights = <<>>
    /\ archetypes \in {PyDict(items) : items \in ExampleMappings}
    /\ q_scores = <<>>
    /\ scenario_adj = <<>>
    /\ final_scores = <<>>
    /\ scenario_given = FALSE
    /\ result = NoResult
    /\ SimulationIdle
    /\ SessionIdle

\* q_scores = calculate_question_scores(answers)
E2E_question_scores ==
    /\ pc = "e2e_compute_idix"
    /\ q_scores' = calculate_question_scores(answers)
    /\ pc' = "e2e_scored"
    /\ UNCHANGED <<answers, scenario_responses, scenario_weights, archetypes,
                   scenario_adj, final_scores, scenario_given, result>>
    /\ UNCHANGED <<simulation_vars, session_vars>>

\* scenario_responses is None: scenario_adj = {}; final_scores = merge_scores(q_scores, {})
E2E_merge ==
    /\ pc = "e2e_scored"
    /\ scenario_given' = FALSE
    /\ scenario_adj' = <<>>
    /\ final_scores' = merge_scores(q_scores, <<>>)
    /\ pc' = "e2e_merged"
    /\ UNCHANGED <<answers, scenario_responses, scenario_weights, archetypes,
                   q_scores, result>>
    /\ UNCHANGED <<simulation_vars, session_vars>>

\* if archetypes: determine_archetypes(final_scores, archetypes); return
E2E_archetypes ==
    /\ pc = "e2e_merged"
    /\ result' = compute_idix_archetypes(final_scores, archetypes)
    /\ pc' = "e2e_returned"
    /\ UNCHANGED <<answers, scenario_responses, scenario_weights, archetypes,
                   q_scores, scenario_adj, final_scores, scenario_given>>
    /\ UNCHANGED <<simulation_vars, session_vars>>

NextEndToEnd == E2E_question_scores \/ E2E_merge \/ E2E_archetypes

SpecEndToEnd == InitEndToEnd /\ [][NextEndToEnd]_vars

\* C11: answers q1 = {5, thinking}, q2 = {1, execution, reverse} score
\* thinking = 100 and execution = 100, and with Visionary (90, 40) given
\* before Operator (40, 90) the primary is "Visionary"
C11_EndToEndExample ==
    (answers = ExampleAnswers /\ archetypes = ExampleArchetypes) =>
        /\ pc \in {"e2e_scored", "e2e_merged", "e2e_returned"} =>
              q_scores = [thinking |-> Num(100), execution |-> Num(100)]
        /\ pc = "e2e_returned" => result[1][1] = "Visionary"

\* the example has run: both archetypes are at the same distance from
\* (100, 100) and the first one is primary, the other one shadow
C11_Witness ==
    /\ pc = "e2e_returned"
    /\ answers = ExampleAnswers
    /\ archetypes = ExampleArchetypes
    /\ final_scores = [thinking |-> Num(100), execution |-> Num(100)]
    /\ SqDist(1, Scored) = SqDist(2, Scored)
    /\ result = <<Entry(1), Entry(2)>>

----------------------------------------------------------------------------
(* dev/archerype_simulator.py: the tally of primary archetypes over random  *)
(* profiles.  The script runs N = 5000 trials; the model runs 1..MaxRuns.   *)

MaxRuns == 3

\* random_profile(): one value of [0, 100] for every dimension
Profiles == [Dims -> ScoreValues]

\* the nearest valid archetype among the first n items; the first one met
\* wins a tie
RECURSIVE nearest(_, _, _)
nearest(scores, items, n) ==
    IF n = 0 THEN [found |-> FALSE, name |-> "Unknown", dist |-> 0]
    ELSE LET prev == nearest(scores, items, n - 1)
             sig == Get(items[n].data, "signature")
         IN  IF ~isinstance_dict(sig) THEN prev
             ELSE IF \E dim \in DOMAIN scores : dim \notin DOMAIN sig.items THEN prev
             ELSE LET dist == SumSq(scores, sig.items, DOMAIN scores)
                  IN  IF ~prev.found \/ dist < prev.dist
                      THEN [found |-> TRUE, name |-> items[n].name, dist |-> dist]
                      ELSE prev

\* determine_archetype(scores, archetypes): the primary match only
determine_archetype(scores, archs) ==
    LET best == nearest(scores, archs.items, Len(archs.items))
    IN  IF best.found
        THEN <<best.name, archetype_data(archs.items, best.name)>>
        ELSE <<"Unknown", UnknownPayload>>

\* counts = {name: 0 for name in archetypes}
zero_counts(archs) ==
    [name \in {archs.items[i].name : i \in 1..Len(archs.items)} |-> 0]

\* counts[name] = 1 in place of counts[name] += 1
credit_assign(c, name) == [c EXCEPT ![name] = 1]

\* counts[name] += 1
credit(c, name) == [c EXCEPT ![name] = @ + 1]

\* c / N * 100 for every name, as the numerator of a fraction over N
percentages(c) == [name \in DOMAIN c |-> c[name] * 100]

InitSimulator ==
    /\ pc = "sim_loop"
    /\ archetypes \in {PyDict(items) : items \in ArchetypeItems(MaxArchetypes)}
    /\ runs \in 1..MaxRuns
    /\ trial = 0
    /\ counts = zero_counts(archetypes)
    /\ probs = <<>>
    /\ answers = <<>>
    /\ scenario_responses = PyNone
    /\ scenario_weights = PyNone
    /\ q_scores = <<>>
    /\ scenario_adj = <<>>
    /\ final_scores = <<>>
    /\ scenario_given = FALSE
    /\ result = NoResult
    /\ SessionIdle

\* one pass of `for _ in range(N)`: a name that is no key of counts raises
\* KeyError and ends the script
Sim_trial ==
    /\ pc = "sim_loop"
    /\ trial < runs
    /\ \E prof \in Profiles :
          LET name == determine_archetype(prof, archetypes)[1]
          IN  IF \E i \in 1..Len(archetypes.items) : archetypes.items[i].name = name
              THEN /\ counts' = credit(counts, name)
                   /\ trial' = trial + 1
                   /\ pc' = "sim_loop"
              ELSE /\ pc' = "sim_KeyError"
                   /\ UNCHANGED <<counts, trial>>
    /\ UNCHANGED <<runs, probs, archetypes, engine_vars, session_vars>>

\* the loop is over: print c / N * 100 for every name
Sim_report ==
    /\ pc = "sim_loop"
    /\ trial = runs
    /\ probs' = percentages(counts)
    /\ pc' = "sim_reported"
    /\ UNCHANGED <<runs, trial, counts, archetypes, engine_vars, session_vars>>

NextSimulator == Sim_trial \/ Sim_report

SpecSimulator == InitSimulator /\ [][NextSimulator]_vars

\* the names the simulation tallies, and the archetypes whose signature is a
\* mapping with a value for every dimension of a profile
TalliedNames == {Items[i].name : i \in 1..Len(Items)}
ValidForProfiles == {i \in 1..Len(Items) : IsMapping(i) /\ Dims \subseteq DOMAIN Signature(i)}
Simulating == pc \in {"sim_loop", "sim_reported", "sim_KeyError"}

\* C12: with at least one valid signature every trial credits exactly one
\* tallied name (no trial's name is outside the tally), so the tallies sum
\* to the number of trials done, to runs >= 1 after the last one, and the
\* percentages count / runs * 100 sum to 100
C12_TallySumsToRuns ==
    (Simulating /\ ValidForProfiles # {}) =>
        /\ pc # "sim_KeyError"
        /\ \A name \in TalliedNames : counts[name] \in 0..trial
        /\ SetSum(counts, TalliedNames) = trial
        /\ pc = "sim_reported" =>
              /\ runs >= 1
              /\ trial = runs
              /\ SetSum(probs, TalliedNames) = 100 * runs

\* a simulation of several trials has reported, and two archetypes won some
C12_Witness ==
    /\ pc = "sim_reported"
    /\ runs > 1
    /\ Cardinality(ValidForProfiles) > 1
    /\ \A name \in TalliedNames : counts[name] > 0

\* without a valid signature the matched name is the sentinel, which is no
\* key of the tally
C12_WitnessNoValid ==
    /\ pc = "sim_KeyError"
    /\ ValidForProfiles = {}

----------------------------------------------------------------------------
(* I-Type.py: the three-step wizard.  Every click reruns the script, which  *)
(* reads session_state, handles the one button that was clicked and draws   *)
(* the page of the current step.  session_q and session_sc are the q<i> and *)
(* sc_<i> keys of session_state; a key that is absent shows its default.    *)

MaxQuestions == 2
MaxScenarioCards == 1

ScenarioOptions == {"A", "B"}
ScenarioCards == 1..MaxScenarioCards

\* the question lists of data/questions.json, the empty default included
QuestionLists == UNION {[1..n -> {[question |-> "text"]}] : n \in 0..MaxQuestions}

\* the archetype mappings of data/archetypes.json, the empty default included;
\* the wizard's own code reads the names only
TileData == [description |-> "text",
             signature |-> PyDict([thinking |-> Num(100), execution |-> Num(0)])]
WizardArchetypes ==
    {PyDict(items) : items \in {it \in ArchetypeItems(MaxArchetypes) :
                                    \A i \in 1..Len(it) : it[i].data = TileData}}

\* session_state[key] = v
set_key(state, key, v) ==
    [k \in DOMAIN state \cup {key} |-> IF k = key THEN v ELSE state[k]]

InitWizard ==
    /\ pc = "wizard"
    /\ step = 1
    /\ has_results = FALSE
    /\ open_archetype = NoArchetype
    /\ questions \in QuestionLists
    /\ archetypes \in WizardArchetypes
    /\ session_q = <<>>
    /\ session_sc = <<>>
    /\ answers = <<>>
    /\ scenario_responses = PyNone
    /\ scenario_weights = PyNone
    /\ q_scores = <<>>
    /\ scenario_adj = <<>>
    /\ final_scores = <<>>
    /\ scenario_given = FALSE
    /\ result = NoResult
    /\ SimulationIdle

\* what no click changes
wizard_config == <<pc, questions, archetypes, engine_vars, simulation_vars>>

\* step 1: st.slider(..., key=f"q{i}")
Move_slider ==
    /\ step = 1
    /\ questions # <<>>
    /\ \E i \in 1..Len(questions), v \in LikertValues :
          session_q' = set_key(session_q, i, v)
    /\ UNCHANGED <<step, has_results, open_archetype, session_sc, wizard_config>>

\* step 1: "Reset"
Click_Reset ==
    /\ step = 1
    /\ session_q' = <<>>
    /\ session_sc' = <<>>
    /\ step' = 1
    /\ has_results' = FALSE
    /\ open_archetype' = NoArchetype
    /\ UNCHANGED wizard_config

\* step 1: "Next -> Scenarios"
Click_NextToScenarios ==
    /\ step = 1
    /\ step' = 2
    /\ UNCHANGED <<has_results, open_archetype, session_q, session_sc, wizard_config>>

\* step 2: st.selectbox(..., key=f"sc_{i}")
Select_option ==
    /\ step = 2
    /\ \E i \in ScenarioCards, o \in ScenarioOptions :
          session_sc' = set_key(session_sc, i, o)
    /\ UNCHANGED <<step, has_results, open_archetype, session_q, wizard_config>>

\* step 2: "Back to Questions"
Click_BackToQuestions ==
    /\ step = 2
    /\ step' = 1
    /\ UNCHANGED <<has_results, open_archetype, session_q, session_sc, wizard_config>>

\* step 2: "Next -> Results"
Click_NextToResults ==
    /\ step = 2
    /\ step' = 3
    /\ UNCHANGED <<has_results, open_archetype, session_q, session_sc, wizard_config>>

\* step 3: "Calculate My Innovator Type", drawn only with questions and archetypes
Click_Calculate ==
    /\ step = 3
    /\ questions # <<>>
    /\ Truthy(archetypes)
    /\ has_results' = TRUE
    /\ open_archetype' = NoArchetype
    /\ UNCHANGED <<step, session_q, session_sc, wizard_config>>

\* "Back to Scenarios" leaving has_results as it is
Click_BackToScenarios_keeps_results ==
    /\ step = 3
    /\ step' = 2
    /\ open_archetype' = NoArchetype
    /\ UNCHANGED <<has_results, session_q, session_sc, wizard_config>>

\* step 3: "Back to Scenarios"
Click_BackToScenarios ==
    /\ step = 3
    /\ step' = 2
    /\ has_results' = FALSE
    /\ open_archetype' = NoArchetype
    /\ UNCHANGED <<session_q, session_sc, wizard_config>>

\* step 3: "Start Over"
Click_StartOver ==
    /\ step = 3
    /\ session_q' = <<>>
    /\ session_sc' = <<>>
    /\ step' = 1
    /\ has_results' = FALSE
    /\ open_archetype' = NoArchetype
    /\ UNCHANGED wizard_config

\* a tile of the archetype grid, drawn on any page while has_results and archetypes
Click_tile ==
    /\ has_results
    /\ Truthy(archetypes)
    /\ \E i \in 1..Len(archetypes.items) :
          LET name == archetypes.items[i].name
          IN  open_archetype' = IF open_archetype = OpenName(name)
                                THEN NoArchetype
                                ELSE OpenName(name)
    /\ UNCHANGED <<step, has_results, session_q, session_sc, wizard_config>>

NextWizard ==
    \/ Move_slider
    \/ Click_Reset
    \/ Click_NextToScenarios
    \/ Select_option
    \/ Click_BackToQuestions
    \/ Click_NextToResults
    \/ Click_Calculate
    \/ Click_BackToScenarios
    \/ Click_StartOver
    \/ Click_tile

SpecWizard == InitWizard /\ [][NextWizard]_vars

SessionConsistent ==
    /\ step \in {1, 2, 3}
    /\ has_results => step = 3
    /\ \/ open_archetype = NoArchetype
       \/ \E i \in 1..Len(Items) : open_archetype = OpenName(Items[i].name)
    /\ open_archetype # NoArchetype => has_results

\* C13: in every reachable session state step is 1, 2 or 3, has_results is
\* True only at step 3, open_archetype is None or the name of an existing
\* archetype and is not None only while has_results; and no click enters
\* step 3 from step 1
C13_SessionInvariant ==
    /\ []SessionConsistent
    /\ [][step' = 3 => step \in {2, 3}]_vars

\* results are shown at step 3 with a tile open, after answers were given
C13_Witness ==
    /\ pc = "wizard"
    /\ step = 3
    /\ has_results
    /\ open_archetype # NoArchetype
    /\ session_q # <<>>
    /\ session_sc # <<>>

====
